---- MODULE Spec2Model ----
(***************************************************************************)
(* A model of the Insper Code Blockchain News API (FastAPI + SQLModel on   *)
(* SQLite): the credential and token service of auth.py and the article    *)
(* endpoints of main.py.                                                   *)
(*                                                                         *)
(* Conventions.  A Python Optional is a sequence of length 0 (None) or 1.  *)
(* A Python str is a TLA+ string; where the code searches or splits one    *)
(* (title, content, search) Chars gives the sequence of its characters,    *)
(* and a tag and the JSON text of the tags are such sequences.  Time is    *)
(* counted in ticks, TicksPerSecond of them to the second: datetime values *)
(* have sub-second resolution while a JWT "exp" claim is in whole seconds. *)
(***************************************************************************)
EXTENDS Integers, Sequences, FiniteSets, TLC

VARIABLES
    users,      \* the user table: a set of User rows (models.py User)
    articles,   \* the article table: Article rows in rowid order
    now,        \* the wall clock, in ticks
    nticks,     \* how many times the clock has been advanced
    nextId,     \* how many uuid4() article ids have been drawn
    held,       \* the token most recently issued, with when and how (Optional)
    pending,    \* a get_articles request between its two reads (Optional)
    response    \* the response to the request handled at this instant

vars == <<users, articles, now, nticks, nextId, held, pending, response>>

----------------------------------------------------------------------------
(* Bounds of the model *)

TicksPerSecond == 2
MaxTicks == 3
MaxCreated == 1

----------------------------------------------------------------------------
(* Optionals *)

None == <<>>
Some(v) == <<v>>
Val(o) == o[1]

----------------------------------------------------------------------------
(* auth.py: configuration *)

SECRET_KEY == "your-secret-key-here-change-in-production"
ACCESS_TOKEN_EXPIRE_MINUTES == 30
DEFAULT_EXPIRE_MINUTES == 15

Minutes(m) == m * 60 * TicksPerSecond

(* timegm(dt.utctimetuple()): a datetime as whole seconds, the fraction dropped *)
Timegm(t) == t \div TicksPerSecond

----------------------------------------------------------------------------
(* auth.py: passwords.  bcrypt is salted and one-way; the stored hash keeps *)
(* its salt, and verification recomputes the hash under that salt.          *)

hash_password(password, salt) ==
    [scheme |-> "bcrypt", salt |-> salt, digest |-> <<password, salt>>]

verify_password(plain_password, hashed_password) ==
    hash_password(plain_password, hashed_password.salt) = hashed_password

----------------------------------------------------------------------------
(* auth.py: tokens.  A JWT is its claim set and the key its HS256 signature *)
(* was made with; a string that is no JWT at all has no claim set.          *)

JwtEncode(claims, key) == [claims |-> Some(claims), key |-> key]

MalformedToken == [claims |-> None, key |-> "none"]

Tampered(token) == [token EXCEPT !.key = "tampered"]

(* A jwt.decode that never looks at exp, for comparison in C9 *)
JwtDecodeNoExpiry(token, key, t) ==
    IF token.claims = None THEN [error |-> "JWTError", payload |-> None]
    ELSE IF token.key # key THEN [error |-> "JWTError", payload |-> None]
    ELSE [error |-> "", payload |-> token.claims]

(* jwt.decode: the structure, then the signature, then the exp claim, which *)
(* is expired when it is less than the current whole second.                *)
JwtDecode(token, key, t) ==
    IF token.claims = None THEN [error |-> "JWTError", payload |-> None]
    ELSE IF token.key # key THEN [error |-> "JWTError", payload |-> None]
    ELSE IF Val(token.claims).exp < Timegm(t)
        THEN [error |-> "ExpiredSignatureError", payload |-> None]
    ELSE [error |-> "", payload |-> token.claims]

(* A create_access_token that ignores expires_delta, for comparison in C1 *)
create_access_token_default(sub, expires_delta, t) ==
    JwtEncode([sub |-> sub, exp |-> Timegm(t + Minutes(DEFAULT_EXPIRE_MINUTES))],
              SECRET_KEY)

(* expires_delta is an Optional timedelta in ticks; timedelta(0) is falsy *)
create_access_token(sub, expires_delta, t) ==
    LET expire == IF expires_delta # None /\ Val(expires_delta) # 0
                  THEN t + Val(expires_delta)
                  ELSE t + Minutes(DEFAULT_EXPIRE_MINUTES)
    IN JwtEncode([sub |-> sub, exp |-> Timegm(expire)], SECRET_KEY)

----------------------------------------------------------------------------
(* The strings of the model whose characters the code looks at: the text *)
(* of the stored articles, of the request bodies and of the searches      *)

SampleTitle1 == "Bitcoin atinge nova máxima histórica"
SampleContent1 == "Bitcoin reached a new all-time high today..."
SampleTitle2 == "Nova regulamentação DeFi no Brasil"
SampleContent2 == "Brazilian government announces new DeFi regulations..."
OldTitle == "Old"
NewTitle == "New"
OldContent == " one  two\n"
NewContent ==
    "w w w w w w w w w w w w w w w w w w w w w w w w w w w w w w w w w w w w w w w w w w w w w w w w w w w w w w w w w w w w w w w w w w w w w w w w w w w w w w w w w w w w w w w w w w w w w w w w w w w w w w w w w w w w w w w w w w w w w w w w w w w w w w w w w w w w w w w w w w w w w w w w w w w w w w w w w w w w w w w w w w w w w w w w w w w w w w w w w w w w w w w w w w w w w w w w w w w w w w w w"
SearchLower == "bitcoin"
SearchExact == "DeFi"
SearchUnderscore == "_"
SearchPercent == "%"
SearchAbsent == "zebra"

Contents == {SampleContent1, SampleContent2, OldContent, NewContent}

(* list(s): the characters of a string *)
Chars(s) ==
    CASE s = "" -> <<>>
      [] s = SampleTitle1 ->
            <<"B", "i", "t", "c", "o", "i", "n", " ", "a", "t", "i", "n", "g", "e", " ", "n", "o", "v", "a", " ", "m", "á", "x", "i", "m", "a", " ", "h", "i", "s", "t", "ó", "r", "i", "c", "a">>
      [] s = SampleContent1 ->
            <<"B", "i", "t", "c", "o", "i", "n", " ", "r", "e", "a", "c", "h", "e", "d", " ", "a", " ", "n", "e", "w", " ", "a", "l", "l", "-", "t", "i", "m", "e", " ", "h", "i", "g", "h", " ", "t", "o", "d", "a", "y", ".", ".", ".">>
      [] s = SampleTitle2 ->
            <<"N", "o", "v", "a", " ", "r", "e", "g", "u", "l", "a", "m", "e", "n", "t", "a", "ç", "ã", "o", " ", "D", "e", "F", "i", " ", "n", "o", " ", "B", "r", "a", "s", "i", "l">>
      [] s = SampleContent2 ->
            <<"B", "r", "a", "z", "i", "l", "i", "a", "n", " ", "g", "o", "v", "e", "r", "n", "m", "e", "n", "t", " ", "a", "n", "n", "o", "u", "n", "c", "e", "s", " ", "n", "e", "w", " ", "D", "e", "F", "i", " ", "r", "e", "g", "u", "l", "a", "t", "i", "o", "n", "s", ".", ".", ".">>
      [] s = OldTitle ->
            <<"O", "l", "d">>
      [] s = NewTitle ->
            <<"N", "e", "w">>
      [] s = OldContent ->
            <<" ", "o", "n", "e", " ", " ", "t", "w", "o", "\n">>
      [] s = NewContent ->
            <<"w", " ", "w", " ", "w", " ", "w", " ", "w", " ", "w", " ", "w", " ", "w", " ", "w", " ", "w", " ", "w", " ", "w", " ", "w", " ", "w", " ", "w", " ", "w", " ", "w", " ", "w", " ", "w", " ", "w", " ", "w", " ", "w", " ", "w", " ", "w", " ", "w", " ", "w", " ", "w", " ", "w", " ", "w", " ", "w", " ", "w", " ", "w", " ", "w", " ", "w", " ", "w", " ", "w", " ", "w", " ", "w", " ", "w", " ", "w", " ", "w", " ", "w", " ", "w", " ", "w", " ", "w", " ", "w", " ", "w", " ", "w", " ", "w", " ", "w", " ", "w", " ", "w", " ", "w", " ", "w", " ", "w", " ", "w", " ", "w", " ", "w", " ", "w", " ", "w", " ", "w", " ", "w", " ", "w", " ", "w", " ", "w", " ", "w", " ", "w", " ", "w", " ", "w", " ", "w", " ", "w", " ", "w", " ", "w", " ", "w", " ", "w", " ", "w", " ", "w", " ", "w", " ", "w", " ", "w", " ", "w", " ", "w", " ", "w", " ", "w", " ", "w", " ", "w", " ", "w", " ", "w", " ", "w", " ", "w", " ", "w", " ", "w", " ", "w", " ", "w", " ", "w", " ", "w", " ", "w", " ", "w", " ", "w", " ", "w", " ", "w", " ", "w", " ", "w", " ", "w", " ", "w", " ", "w", " ", "w", " ", "w", " ", "w", " ", "w", " ", "w", " ", "w", " ", "w", " ", "w", " ", "w", " ", "w", " ", "w", " ", "w", " ", "w", " ", "w", " ", "w", " ", "w", " ", "w", " ", "w", " ", "w", " ", "w", " ", "w", " ", "w", " ", "w", " ", "w", " ", "w", " ", "w", " ", "w", " ", "w", " ", "w", " ", "w", " ", "w", " ", "w", " ", "w", " ", "w", " ", "w", " ", "w", " ", "w", " ", "w", " ", "w", " ", "w", " ", "w", " ", "w", " ", "w", " ", "w", " ", "w", " ", "w", " ", "w", " ", "w", " ", "w", " ", "w", " ", "w", " ", "w", " ", "w", " ", "w", " ", "w", " ", "w", " ", "w", " ", "w", " ", "w", " ", "w", " ", "w", " ", "w", " ", "w", " ", "w", " ", "w", " ", "w", " ", "w", " ", "w", " ", "w", " ", "w", " ", "w", " ", "w", " ", "w", " ", "w", " ", "w", " ", "w", " ", "w", " ", "w", " ", "w", " ", "w", " ", "w", " ", "w", " ", "w", " ", "w", " ", "w", " ", "w", " ", "w", " ", "w", " ", "w", " ", "w", " ", "w", " ", "w", " ", "w", " ", "w">>
      [] s = SearchLower -> <<"b", "i", "t", "c", "o", "i", "n">>
      [] s = SearchExact -> <<"D", "e", "F", "i">>
      [] s = SearchUnderscore -> <<"_">>
      [] s = SearchPercent -> <<"%">>
      [] s = SearchAbsent -> <<"z", "e", "b", "r", "a">>

----------------------------------------------------------------------------
(* Strings as character sequences *)

IsSpace(c) == c \in {" ", "\t", "\n", "\r"}

(* len(s.split()): the number of maximal runs of non-whitespace characters *)
WordCount(s) ==
    Cardinality({i \in 1..Len(s) : ~IsSpace(s[i]) /\ (i = 1 \/ IsSpace(s[i-1]))})

(* len(s.split()) of each content of the model, computed once *)
LenSplit == [s \in Contents |-> WordCount(Chars(s))]

WORDS_PER_MINUTE == 200

(* f"{len(content.split()) // 200 + 1} min" *)
ReadTime(content) ==
    [minutes |-> (LenSplit[content] \div WORDS_PER_MINUTE) + 1, unit |-> "min"]

(* SQLite folds only the ASCII letters when LIKE compares characters *)
Lower(c) ==
    CASE c = "A" -> "a" [] c = "B" -> "b" [] c = "C" -> "c" [] c = "D" -> "d"
      [] c = "E" -> "e" [] c = "F" -> "f" [] c = "G" -> "g" [] c = "H" -> "h"
      [] c = "I" -> "i" [] c = "J" -> "j" [] c = "K" -> "k" [] c = "L" -> "l"
      [] c = "M" -> "m" [] c = "N" -> "n" [] c = "O" -> "o" [] c = "P" -> "p"
      [] c = "Q" -> "q" [] c = "R" -> "r" [] c = "S" -> "s" [] c = "T" -> "t"
      [] c = "U" -> "u" [] c = "V" -> "v" [] c = "W" -> "w" [] c = "X" -> "x"
      [] c = "Y" -> "y" [] c = "Z" -> "z" [] OTHER -> c

(* text LIKE pattern in SQLite: "%" is any run of characters, "_" any one *)
(* character, every other character itself up to ASCII case               *)
RECURSIVE LikeAt(_, _, _, _)
LikeAt(pattern, i, text, j) ==
    IF i > Len(pattern) THEN j > Len(text)
    ELSE IF pattern[i] = "%"
        THEN LikeAt(pattern, i + 1, text, j)
             \/ (j <= Len(text) /\ LikeAt(pattern, i, text, j + 1))
    ELSE /\ j <= Len(text)
         /\ (pattern[i] = "_" \/ Lower(pattern[i]) = Lower(text[j]))
         /\ LikeAt(pattern, i + 1, text, j + 1)

Like(text, pattern) == LikeAt(pattern, 1, text, 1)

(* col(c).contains(search): c LIKE '%' || search || '%', nothing escaped *)
Contains(text, search) == Like(text, <<"%">> \o search \o <<"%">>)

(* The searches tried, and the titles and contents they are tried on *)
Searches == {SearchLower, SearchExact, SearchUnderscore, SearchPercent, SearchAbsent}
SearchedTexts ==
    {SampleTitle1, SampleContent1, SampleTitle2, SampleContent2, OldTitle, OldContent}

(* Contains of each of these pairs, computed once *)
ContainsMemo ==
    [pair \in SearchedTexts \X Searches |-> Contains(Chars(pair[1]), Chars(pair[2]))]

ContainsText(text, search) ==
    IF <<text, search>> \in DOMAIN ContainsMemo THEN ContainsMemo[<<text, search>>]
    ELSE Contains(Chars(text), Chars(search))

(* The literal test `search in text` of the specification *)
IsSubstring(search, text) ==
    \E k \in 0..(Len(text) - Len(search)) :
        \A i \in 1..Len(search) : text[k + i] = search[i]

RECURSIVE Join(_, _)
Join(parts, sep) ==
    IF parts = <<>> THEN <<>>
    ELSE IF Len(parts) = 1 THEN parts[1]
    ELSE parts[1] \o sep \o Join(Tail(parts), sep)

JsonString(s) ==
    <<"\"">>
    \o Join([i \in 1..Len(s) |->
                IF s[i] = "\"" THEN <<"\\", "\"">>
                ELSE IF s[i] = "\\" THEN <<"\\", "\\">>
                ELSE <<s[i]>>], <<>>)
    \o <<"\"">>

(* json.dumps of a list of str *)
JsonDumps(tags) ==
    <<"[">> \o Join([i \in 1..Len(tags) |-> JsonString(tags[i])], <<",", " ">>)
    \o <<"]">>

RECURSIVE JsonParse(_, _, _, _, _)
JsonParse(s, i, inString, cur, acc) ==
    IF i > Len(s) THEN acc
    ELSE IF inString
        THEN IF s[i] = "\\" THEN JsonParse(s, i + 2, TRUE, Append(cur, s[i + 1]), acc)
             ELSE IF s[i] = "\"" THEN JsonParse(s, i + 1, FALSE, <<>>, Append(acc, cur))
             ELSE JsonParse(s, i + 1, TRUE, Append(cur, s[i]), acc)
    ELSE JsonParse(s, i + 1, s[i] = "\"", <<>>, acc)

(* json.loads of what JsonDumps wrote *)
JsonLoads(blob) == JsonParse(blob, 1, FALSE, <<>>, <<>>)

(* The tag lists of the model: those of the two samples and of the bodies *)
SampleTags1 == << <<"b", "i", "t", "c", "o", "i", "n">>, <<"c", "r", "y", "p", "t", "o">>, <<"m", "a", "r", "k", "e", "t">> >>
SampleTags2 == << <<"d", "e", "f", "i">>, <<"r", "e", "g", "u", "l", "a", "t", "i", "o", "n">>, <<"b", "r", "a", "z", "i", "l">> >>
OldTags == <<>>
NewTags == << <<"a">>, <<"b", ",", "c">> >>
TagLists == {SampleTags1, SampleTags2, OldTags, NewTags}

(* json.dumps and json.loads of each of them, computed once *)
Dumps == [tags \in TagLists |-> JsonDumps(tags)]
Loads == [blob \in {Dumps[tags] : tags \in TagLists} |-> JsonLoads(blob)]

----------------------------------------------------------------------------
(* Responses *)

Response(op, status, detail) ==
    [op |-> op, status |-> status, detail |-> detail, headers |-> "",
     token |-> None, user |-> None, article |-> None,
     articles |-> <<>>, total |-> 0, has_more |-> FALSE]

NoResponse == Response("", 0, "")

(* raise HTTPException(...) as the response FastAPI makes of it *)
Raise(op, exc) ==
    [Response(op, exc.status_code, exc.detail) EXCEPT !.headers = exc.headers]

HTTPException(status_code, detail) ==
    [status_code |-> status_code, detail |-> detail, headers |-> ""]

credentials_exception ==
    [status_code |-> 401, detail |-> "Could not validate credentials",
     headers |-> "WWW-Authenticate: Bearer"]

(* HTTPBearer() without an Authorization header: 403 in the FastAPI releases *)
(* before 0.122 and 401 since; the repository pins none                      *)
NotAuthenticatedCodes == {401, 403}
NotAuthenticated(code) == HTTPException(code, "Not authenticated")

(* A request body that fails pydantic validation *)
ValidationError == HTTPException(422, "Unprocessable Entity")

NotFound == HTTPException(404, "Article not found")

UserDict(user) ==
    [id |-> user.id, name |-> user.name, email |-> user.email, role |-> user.role]

(* session.exec(select(User).where(...)).first() *)
UserById(U, id) == IF \E u \in U : u.id = id
                   THEN Some(CHOOSE u \in U : u.id = id) ELSE None

UserByEmail(U, email) == IF \E u \in U : u.email = email
                         THEN Some(CHOOSE u \in U : u.email = email) ELSE None

(* An authenticate_user that does not verify the password, for comparison *)
(* in C3                                                                  *)
authenticate_user_by_email(U, email, password) == UserByEmail(U, email)

authenticate_user(U, email, password) ==
    LET user == UserByEmail(U, email)
    IN IF user = None THEN None
       ELSE IF ~verify_password(password, Val(user).password_hash) THEN None
       ELSE user

(* A get_current_user that answers an expired token with an exception of *)
(* its own, for comparison in C2                                         *)
get_current_user_expired(token, U, t) ==
    LET decoded == JwtDecode(token, SECRET_KEY, t)
    IN IF decoded.error = "ExpiredSignatureError"
            THEN [user |-> None, raised |-> Some(HTTPException(401, "Token has expired"))]
       ELSE IF decoded.error # ""
            THEN [user |-> None, raised |-> Some(credentials_exception)]
       ELSE IF Val(decoded.payload).sub = None
            THEN [user |-> None, raised |-> Some(credentials_exception)]
       ELSE LET user == UserById(U, Val(Val(decoded.payload).sub))
            IN IF user = None
                THEN [user |-> None, raised |-> Some(credentials_exception)]
                ELSE [user |-> user, raised |-> None]

(* get_current_user: the user it returns, or the exception it raises *)
get_current_user(token, U, t) ==
    LET decoded == JwtDecode(token, SECRET_KEY, t)
    IN IF decoded.error # ""
            THEN [user |-> None, raised |-> Some(credentials_exception)]
       ELSE IF Val(decoded.payload).sub = None
            THEN [user |-> None, raised |-> Some(credentials_exception)]
       ELSE LET user == UserById(U, Val(Val(decoded.payload).sub))
            IN IF user = None
                THEN [user |-> None, raised |-> Some(credentials_exception)]
                ELSE [user |-> user, raised |-> None]

----------------------------------------------------------------------------
(* database.py: what startup leaves in a fresh database *)

(* str(uuid.uuid4()): the id the admin got, and one that no user has *)
AdminId == "u1"
UserIds == {AdminId, "u2"}

AdminUser(id, salt) ==
    [id |-> id, name |-> "Admin", email |-> "admin@example.com",
     password_hash |-> hash_password("admin123", salt), role |-> "admin"]


(* the two rows of create_sample_articles; their ids are the first two uuids *)
SampleArticles(t) ==
    << [id |-> 1, title |-> SampleTitle1, content |-> SampleContent1,
        excerpt |-> "Cryptocurrency market shows strong momentum",
        category |-> "market", author |-> "Admin", published_at |-> t,
        read_time |-> [minutes |-> 5, unit |-> "min"], image_url |-> None,
        tags |-> Dumps[SampleTags1], status |-> "published"],
       [id |-> 2, title |-> SampleTitle2, content |-> SampleContent2,
        excerpt |-> "New regulatory framework for decentralized finance",
        category |-> "regulation", author |-> "Admin", published_at |-> t,
        read_time |-> [minutes |-> 8, unit |-> "min"], image_url |-> None,
        tags |-> Dumps[SampleTags2], status |-> "published"] >>

(* Startup was at time 0; the first request arrives a tick later *)
Init ==
    /\ users = {AdminUser(AdminId, "salt1")}
    /\ articles = SampleArticles(0)
    /\ now = 1
    /\ nticks = 0
    /\ nextId = 0
    /\ held = None
    /\ pending = None
    /\ response = NoResponse

----------------------------------------------------------------------------
(* The clock *)

TickSteps == {1, Minutes(DEFAULT_EXPIRE_MINUTES)}

Tick(d) ==
    /\ nticks < MaxTicks
    /\ now' = now + d
    /\ nticks' = nticks + 1
    /\ response' = NoResponse
    /\ UNCHANGED <<users, articles, nextId, held, pending>>

----------------------------------------------------------------------------
(* auth.py and main.py: the authentication endpoints *)

Emails == {"admin@example.com", "Admin@example.com", "nobody@example.com"}
Passwords == {"admin123", "admin124", ""}
SubInputs == {None} \cup {Some(id) : id \in UserIds}
DeltaInputs == {None, Some(0), Some(1), Some(TicksPerSecond), Some(TicksPerSecond + 1)}

Issued(token, sub, delta) ==
    Some([token |-> token, sub |-> sub, iat |-> now, expires_delta |-> delta])

(* create_access_token({"sub": sub}, expires_delta), called on its own *)
IssueToken(sub, expires_delta) ==
    /\ held' = Issued(create_access_token(sub, expires_delta, now), sub, expires_delta)
    /\ response' = NoResponse
    /\ UNCHANGED <<users, articles, now, nticks, nextId, pending>>

login(email, password) ==
    LET user == authenticate_user(users, email, password)
        access_token_expires == Some(Minutes(ACCESS_TOKEN_EXPIRE_MINUTES))
        access_token == create_access_token(Some(Val(user).id), access_token_expires, now)
    IN /\ IF user = None
          THEN /\ response' = Raise("login", HTTPException(401, "Incorrect email or password"))
               /\ held' = held
          ELSE /\ response' = [Response("login", 200, "") EXCEPT
                                   !.token = Some(access_token),
                                   !.user = Some(UserDict(Val(user)))]
               /\ held' = Issued(access_token, Some(Val(user).id), access_token_expires)
       /\ UNCHANGED <<users, articles, now, nticks, nextId, pending>>

(* The bearer credentials a client can send: none, a string that is no     *)
(* token, a token it was issued or one it altered, and tokens signed in    *)
(* earlier runs under the same static secret, for any subject and expiry   *)
SignedTokens ==
    {JwtEncode([sub |-> Some(AdminId), exp |-> 0], SECRET_KEY),
     JwtEncode([sub |-> Some(AdminId), exp |-> -1], SECRET_KEY),
     JwtEncode([sub |-> Some("u2"), exp |-> 0], SECRET_KEY),
     JwtEncode([sub |-> None, exp |-> 0], SECRET_KEY)}

Credentials ==
    {None, Some(MalformedToken)}
    \cup (IF held = None THEN {}
          ELSE {Some(Val(held).token), Some(Tampered(Val(held).token))})
    \cup {Some(token) : token \in SignedTokens}
    \cup {Some(Tampered(JwtEncode([sub |-> Some(AdminId), exp |-> 0], SECRET_KEY)))}

(* Depends(security) then Depends(get_current_user): the responses that    *)
(* reject the request before the endpoint's body runs                      *)
Rejections(op, credentials) ==
    IF credentials = None
        THEN {Raise(op, NotAuthenticated(code)) : code \in NotAuthenticatedCodes}
    ELSE LET current == get_current_user(Val(credentials), users, now)
         IN IF current.raised # None THEN {Raise(op, Val(current.raised))} ELSE {}

CurrentUser(credentials) == Val(get_current_user(Val(credentials), users, now).user)

get_me(credentials) ==
    /\ IF Rejections("get_me", credentials) # {}
       THEN response' \in Rejections("get_me", credentials)
       ELSE response' = [Response("get_me", 200, "") EXCEPT
                             !.user = Some(UserDict(CurrentUser(credentials)))]
    /\ UNCHANGED <<users, articles, now, nticks, nextId, held, pending>>

NextAuth ==
    \/ \E d \in TickSteps : Tick(d)
    \/ \E sub \in SubInputs, delta \in DeltaInputs : IssueToken(sub, delta)
    \/ \E email \in Emails, password \in Passwords : login(email, password)
    \/ \E credentials \in Credentials : get_me(credentials)

SpecAuth == Init /\ [][NextAuth]_vars

----------------------------------------------------------------------------
(* main.py: reading articles *)

CategoryEnum == {"market", "technology", "event", "regulation", "innovation", "analysis"}
StatusEnum == {"published", "draft"}

ArticleDict(article) ==
    [id |-> article.id, title |-> article.title, content |-> article.content,
     excerpt |-> article.excerpt, category |-> article.category,
     author |-> article.author, publishedAt |-> <<"isoformat", article.published_at>>,
     readTime |-> article.read_time, imageUrl |-> article.image_url,
     tags |-> Loads[article.tags], status |-> article.status]

(* session.exec(select(Article).where(Article.id == article_id)).first() *)
ArticleById(rows, article_id) ==
    IF \E i \in 1..Len(rows) : rows[i].id = article_id
    THEN Some(CHOOSE i \in 1..Len(rows) : rows[i].id = article_id) ELSE None

(* The WHERE clause get_articles builds: a filter is applied when truthy *)
Matches(article, query) ==
    /\ (query.category # None /\ Val(query.category) # "")
            => article.category = Val(query.category)
    /\ (query.status # None /\ Val(query.status) # "")
            => article.status = Val(query.status)
    /\ (query.search # None /\ Val(query.search) # "")
            => \/ ContainsText(article.title, Val(query.search))
               \/ ContainsText(article.content, Val(query.search))

Filtered(rows, query) == SelectSeq(rows, LAMBDA article : Matches(article, query))

(* SQLite's LIMIT and OFFSET: a negative OFFSET is 0, a negative LIMIT none *)
Window(rows, offset, limit) ==
    LET skip == IF offset < 0 THEN 0 ELSE offset
        rest == Len(rows) - skip
        take == IF rest < 0 THEN 0
                ELSE IF limit < 0 \/ limit > rest THEN rest ELSE limit
    IN [i \in 1..take |-> rows[skip + i]]

(* main.py line 100: the count, read from the table as it is then *)
ReadTotal(rows, query) == Len(Filtered(rows, query))

(* A window read that ignores the limit, for comparison in C10 *)
ReadWindowNoLimit(rows, query) == Window(Filtered(rows, query), query.offset, -1)

(* main.py line 102: the window, read from the table as it is then *)
ReadWindow(rows, query) == Window(Filtered(rows, query), query.offset, query.limit)

ListResponse(query, total, window) ==
    [Response("get_articles", 200, "") EXCEPT
        !.articles = [i \in 1..Len(window) |-> ArticleDict(window[i])],
        !.total = total,
        !.has_more = (query.offset + query.limit) < total]

(* get_articles with no other request between its two reads *)
get_articles(query) ==
    /\ response' = ListResponse(query, ReadTotal(articles, query),
                                ReadWindow(articles, query))
    /\ UNCHANGED <<users, articles, now, nticks, nextId, held, pending>>

(* get_articles up to its first read *)
get_articles_count(query) ==
    /\ pending = None
    /\ pending' = Some([query |-> query, total |-> ReadTotal(articles, query)])
    /\ response' = NoResponse
    /\ UNCHANGED <<users, articles, now, nticks, nextId, held>>

(* get_articles from its second read on *)
get_articles_window ==
    /\ pending # None
    /\ response' = ListResponse(Val(pending).query, Val(pending).total,
                                ReadWindow(articles, Val(pending).query))
    /\ pending' = None
    /\ UNCHANGED <<users, articles, now, nticks, nextId, held>>

get_article(article_id) ==
    LET found == ArticleById(articles, article_id)
    IN /\ response' =
            IF found = None THEN Raise("get_article", NotFound)
            ELSE [Response("get_article", 200, "") EXCEPT
                      !.article = Some(ArticleDict(articles[Val(found)]))]
       /\ UNCHANGED <<users, articles, now, nticks, nextId, held, pending>>

----------------------------------------------------------------------------
(* main.py: writing articles *)


(* CreateArticleData bodies *)
CreateOld ==
    [title |-> OldTitle, content |-> OldContent, excerpt |-> "old excerpt",
     category |-> "market", tags |-> OldTags, image_url |-> None, status |-> None]

CreateNew ==
    [title |-> NewTitle, content |-> NewContent, excerpt |-> "new excerpt",
     category |-> "technology", tags |-> NewTags, image_url |-> Some("new.png"),
     status |-> Some("draft")]

CreateInputs == {CreateOld, CreateNew, [CreateOld EXCEPT !.category = "markets"]}

(* UpdateArticleData bodies: a field that is None was not sent *)
NoPatch ==
    [title |-> None, content |-> None, excerpt |-> None, category |-> None,
     tags |-> None, image_url |-> None, status |-> None]

FullPatch ==
    [title |-> Some(NewTitle), content |-> Some(NewContent),
     excerpt |-> Some("new excerpt"), category |-> Some("technology"),
     tags |-> Some(NewTags), image_url |-> Some("new.png"), status |-> Some("draft")]

UpdateInputs ==
    {NoPatch, FullPatch,
     [NoPatch EXCEPT !.content = Some(NewContent)],
     [FullPatch EXCEPT !.content = None],
     [NoPatch EXCEPT !.category = Some("markets")]}

(* pydantic's validation of the two enumerated fields *)
ValidCreate(data) ==
    /\ data.category \in CategoryEnum
    /\ data.status = None \/ Val(data.status) \in StatusEnum

ValidUpdate(data) ==
    /\ data.category = None \/ Val(data.category) \in CategoryEnum
    /\ data.status = None \/ Val(data.status) \in StatusEnum

(* str(uuid.uuid4()): an id no row had before; the samples took the first *)
NewUuid == Len(SampleArticles(0)) + nextId + 1

ArticleIds == 0..(Len(SampleArticles(0)) + MaxCreated)

(* Article(...) as create_article builds it *)
Stored(id, data, author, t) ==
    [id |-> id, title |-> data.title, content |-> data.content,
     excerpt |-> data.excerpt, category |-> data.category,
     author |-> author, published_at |-> t,
     read_time |-> ReadTime(data.content), image_url |-> data.image_url,
     tags |-> Dumps[data.tags],
     status |-> IF data.status # None THEN Val(data.status) ELSE "published"]

NewArticle(data, current_user, t) == Stored(NewUuid, data, current_user.name, t)

create_article(data, credentials) ==
    /\ IF Rejections("create_article", credentials) # {}
       THEN /\ response' \in Rejections("create_article", credentials)
            /\ UNCHANGED <<articles, nextId>>
       ELSE IF ~ValidCreate(data)
       THEN /\ response' = Raise("create_article", ValidationError)
            /\ UNCHANGED <<articles, nextId>>
       ELSE LET article == NewArticle(data, CurrentUser(credentials), now)
            IN /\ nextId < MaxCreated
               /\ articles' = Append(articles, article)
               /\ nextId' = nextId + 1
               /\ response' = [Response("create_article", 200, "") EXCEPT
                                   !.article = Some(ArticleDict(article))]
    /\ UNCHANGED <<users, now, nticks, held, pending>>

(* An update that resets an absent status to the default of create, for *)
(* comparison in C6                                                     *)
PatchedStatusDefault(article, data) ==
    [article EXCEPT
        !.title = IF data.title # None THEN Val(data.title) ELSE @,
        !.content = IF data.content # None THEN Val(data.content) ELSE @,
        !.read_time = IF data.content # None THEN ReadTime(Val(data.content)) ELSE @,
        !.excerpt = IF data.excerpt # None THEN Val(data.excerpt) ELSE @,
        !.category = IF data.category # None THEN Val(data.category) ELSE @,
        !.tags = IF data.tags # None THEN Dumps[Val(data.tags)] ELSE @,
        !.image_url = IF data.image_url # None THEN data.image_url ELSE @,
        !.status = IF data.status # None THEN Val(data.status) ELSE "published"]

(* An update that leaves read_time as it was, for comparison in C7 *)
PatchedStaleReadTime(article, data) ==
    [article EXCEPT
        !.title = IF data.title # None THEN Val(data.title) ELSE @,
        !.content = IF data.content # None THEN Val(data.content) ELSE @,
        !.excerpt = IF data.excerpt # None THEN Val(data.excerpt) ELSE @,
        !.category = IF data.category # None THEN Val(data.category) ELSE @,
        !.tags = IF data.tags # None THEN Dumps[Val(data.tags)] ELSE @,
        !.image_url = IF data.image_url # None THEN data.image_url ELSE @,
        !.status = IF data.status # None THEN Val(data.status) ELSE @]

(* The assignments of update_article, lines 195 to 209 *)
Patched(article, data) ==
    [article EXCEPT
        !.title = IF data.title # None THEN Val(data.title) ELSE @,
        !.content = IF data.content # None THEN Val(data.content) ELSE @,
        !.read_time = IF data.content # None THEN ReadTime(Val(data.content)) ELSE @,
        !.excerpt = IF data.excerpt # None THEN Val(data.excerpt) ELSE @,
        !.category = IF data.category # None THEN Val(data.category) ELSE @,
        !.tags = IF data.tags # None THEN Dumps[Val(data.tags)] ELSE @,
        !.image_url = IF data.image_url # None THEN data.image_url ELSE @,
        !.status = IF data.status # None THEN Val(data.status) ELSE @]

update_article(article_id, data, credentials) ==
    LET found == ArticleById(articles, article_id)
    IN /\ IF Rejections("update_article", credentials) # {}
          THEN /\ response' \in Rejections("update_article", credentials)
               /\ articles' = articles
          ELSE IF ~ValidUpdate(data)
          THEN /\ response' = Raise("update_article", ValidationError)
               /\ articles' = articles
          ELSE IF found = None
          THEN /\ response' = Raise("update_article", NotFound)
               /\ articles' = articles
          ELSE LET article == Patched(articles[Val(found)], data)
               IN /\ articles' = [articles EXCEPT ![Val(found)] = article]
                  /\ response' = [Response("update_article", 200, "") EXCEPT
                                      !.article = Some(ArticleDict(article))]
       /\ UNCHANGED <<users, now, nticks, nextId, held, pending>>

(* A delete that also drops the rows stored after the one deleted, for *)
(* comparison in C8                                                    *)
WithoutFrom(rows, i) == SubSeq(rows, 1, i - 1)

(* session.delete(article): the table without that row *)
Without(rows, i) == [k \in 1..(Len(rows) - 1) |-> IF k < i THEN rows[k] ELSE rows[k + 1]]

delete_article(article_id, credentials) ==
    LET found == ArticleById(articles, article_id)
    IN /\ IF Rejections("delete_article", credentials) # {}
          THEN /\ response' \in Rejections("delete_article", credentials)
               /\ articles' = articles
          ELSE IF found = None
          THEN /\ response' = Raise("delete_article", NotFound)
               /\ articles' = articles
          ELSE /\ articles' = Without(articles, Val(found))
               /\ response' = Response("delete_article", 200,
                                       "Article deleted successfully")
       /\ UNCHANGED <<users, now, nticks, nextId, held, pending>>

----------------------------------------------------------------------------
(* The API with one request handled at a time *)

DefaultQuery ==
    [category |-> None, status |-> None, search |-> None, limit |-> 10, offset |-> 0]

(* The token of a login at the time of the first request *)
LoginToken ==
    create_access_token(Some(AdminId), Some(Minutes(ACCESS_TOKEN_EXPIRE_MINUTES)), 1)

(* The credentials tried on the article endpoints: none, that token, a   *)
(* token of a subject no user has, and that token altered                *)
ApiCredentials ==
    {None,
     Some(LoginToken),
     Some(create_access_token(Some("u2"), Some(Minutes(ACCESS_TOKEN_EXPIRE_MINUTES)), 1)),
     Some(Tampered(LoginToken))}

(* The clock of this specification moves once, past the token's expiry *)
Expire == Minutes(ACCESS_TOKEN_EXPIRE_MINUTES) + TicksPerSecond

(* A request that the bearer check rejects never has its path or body    *)
(* read: such a request is tried with one id and one body, an accepted   *)
(* one with every id and every body                                     *)
Accepted(credentials) == Rejections("", credentials) = {}
IdsFor(credentials) == IF Accepted(credentials) THEN ArticleIds ELSE {1}
CreateBodies(credentials) == IF Accepted(credentials) THEN CreateInputs ELSE {CreateNew}
UpdateBodies(credentials) == IF Accepted(credentials) THEN UpdateInputs ELSE {FullPatch}

Next ==
    \/ now < Expire /\ Tick(Expire)
    \/ get_articles(DefaultQuery)
    \/ \E id \in ArticleIds : get_article(id)
    \/ \E credentials \in ApiCredentials :
         \E data \in CreateBodies(credentials) : create_article(data, credentials)
    \/ \E credentials \in ApiCredentials :
         \E id \in IdsFor(credentials), data \in UpdateBodies(credentials) :
            update_article(id, data, credentials)
    \/ \E credentials \in ApiCredentials :
         \E id \in IdsFor(credentials) : delete_article(id, credentials)

Spec == Init /\ [][Next]_vars

----------------------------------------------------------------------------
(* get_articles on its own, over tables the API can have been brought to *)

ExampleTotal == 25

(* The two samples followed by articles the admin created *)
ManyArticles ==
    SampleArticles(0)
    \o [i \in 1..(ExampleTotal - Len(SampleArticles(0))) |->
            Stored(Len(SampleArticles(0)) + i, CreateOld, "Admin", 1)]

(* A draft the admin created after the samples *)
DraftArticle ==
    Stored(Len(SampleArticles(0)) + 1,
           [CreateOld EXCEPT !.category = "technology", !.status = Some("draft")],
           "Admin", 1)

(* Nothing left, the samples, either sample alone, these with the draft, *)
(* and the long table                                                    *)
ListTables ==
    {<<>>, SampleArticles(0), Tail(SampleArticles(0)), <<SampleArticles(0)[1]>>,
     Append(SampleArticles(0), DraftArticle),
     Append(Tail(SampleArticles(0)), DraftArticle),
     <<SampleArticles(0)[1], DraftArticle>>, <<DraftArticle>>, ManyArticles}

InitList ==
    /\ users = {AdminUser(AdminId, "salt1")}
    /\ articles \in ListTables
    /\ now = 1
    /\ nticks = 0
    /\ nextId = Cardinality({i \in 1..Len(articles) :
                                articles[i].id > Len(SampleArticles(0))})
    /\ held = None
    /\ pending = None
    /\ response = NoResponse

ListCategories == {None, Some(""), Some("market"), Some("technology"), Some("event")}
ListStatuses == {None, Some("published"), Some("draft")}
ListSearches == {None, Some("")} \cup {Some(search) : search \in Searches}
ListLimits == {-2, -1, 0, 1, 2, 5, 10, 30}
ListOffsets == {-1, 0, 1, 2, 3, 10, 20, 24, 25, 30}

(* Every combination of filters with the default window, every window  *)
(* with no filter, and the filters again with a window of one          *)
ListQueries ==
    {[category |-> c, status |-> st, search |-> q, limit |-> 10, offset |-> 0] :
        c \in ListCategories, st \in ListStatuses, q \in ListSearches}
    \cup {[category |-> None, status |-> None, search |-> None, limit |-> l, offset |-> o] :
            l \in ListLimits, o \in ListOffsets}
    \cup {[category |-> c, status |-> None, search |-> q, limit |-> 1, offset |-> 1] :
            c \in ListCategories, q \in ListSearches}

NextList == \E query \in ListQueries : get_articles(query)

SpecList == InitList /\ [][NextList]_vars

----------------------------------------------------------------------------
(* The API with requests in flight together: the endpoints are sync     *)
(* functions, which FastAPI runs in a thread pool, each with a session  *)
(* of its own.  The two SELECTs of get_articles are separate            *)
(* statements outside any transaction, so a write that another request  *)
(* commits between them is seen by the second and not by the first.     *)

StatusPatch == [NoPatch EXCEPT !.status = Some("draft")]

ConcQueries ==
    {DefaultQuery,
     [DefaultQuery EXCEPT !.limit = 1],
     [DefaultQuery EXCEPT !.limit = 1, !.offset = 1],
     [DefaultQuery EXCEPT !.limit = 1, !.offset = 2],
     [DefaultQuery EXCEPT !.status = Some("published")]}

NextConc ==
    \/ \E query \in ConcQueries : get_articles_count(query)
    \/ get_articles_window
    \/ create_article(CreateOld, Some(LoginToken))
    \/ \E id \in ArticleIds : update_article(id, StatusPatch, Some(LoginToken))
    \/ \E id \in ArticleIds : delete_article(id, Some(LoginToken))

SpecConc == Init /\ [][NextConc]_vars

----------------------------------------------------------------------------
(* Claims about tokens and login, checked under SpecAuth *)

(* The token the client holds was issued to an existing user with a      *)
(* lifetime ttl > 0                                                      *)
HeldForUser ==
    /\ held # None
    /\ Val(held).sub # None
    /\ UserById(users, Val(Val(held).sub)) # None
    /\ Val(held).expires_delta # None
    /\ Val(Val(held).expires_delta) > 0

HeldExpiry == Val(held).iat + Val(Val(held).expires_delta)

AcceptedAs(resp, user) ==
    /\ resp.status = 200
    /\ resp.user = Some(UserDict(user))

(* C1 as the specification states it: the held token is accepted, as its *)
(* user, at every moment before issue time + ttl and rejected at every   *)
(* moment after it.                                                      *)
C1_ExpiresWhenTtlElapses ==
    [][(HeldForUser /\ get_me(Some(Val(held).token))) =>
         /\ now < HeldExpiry =>
                AcceptedAs(response', Val(UserById(users, Val(Val(held).sub))))
         /\ now > HeldExpiry => response'.status = 401]_vars

(* C1, amended: the held token is accepted, as its user, at every moment *)
(* up to the end of the whole second in which issue time + ttl falls,    *)
(* and rejected from the next second on; and every token signed with the *)
(* secret for an existing user, whenever it was issued and whatever has  *)
(* happened since, is accepted exactly while its exp is not less than    *)
(* the current whole second.                                             *)
C1_ExpiresWithTheSecond ==
    [][/\ (HeldForUser /\ get_me(Some(Val(held).token))) =>
            /\ Timegm(now) <= Timegm(HeldExpiry) =>
                   AcceptedAs(response', Val(UserById(users, Val(Val(held).sub))))
            /\ Timegm(now) > Timegm(HeldExpiry) => response'.status = 401
       /\ response'.op = "get_me" =>
            \A credentials \in Credentials :
                (/\ credentials # None
                 /\ Val(credentials).claims # None
                 /\ Val(credentials).key = SECRET_KEY
                 /\ Val(Val(credentials).claims).sub # None
                 /\ UserById(users, Val(Val(Val(credentials).claims).sub)) # None
                 /\ get_me(credentials)) =>
                    IF Val(Val(credentials).claims).exp >= Timegm(now)
                    THEN AcceptedAs(response',
                            Val(UserById(users, Val(Val(Val(credentials).claims).sub))))
                    ELSE response'.status = 401]_vars

(* The admin's token is still accepted after its ttl has elapsed, in    *)
(* the second in which it elapsed                                       *)
C1_Witness ==
    /\ HeldForUser
    /\ Val(held).sub = Some(AdminId)
    /\ now > HeldExpiry
    /\ Timegm(now) = Timegm(HeldExpiry)
    /\ response.op = "get_me"
    /\ AcceptedAs(response, AdminUser(AdminId, "salt1"))

(* The failure kinds the specification names for a bearer token at time t *)
FailureKind(token, t) ==
    IF \/ token.claims = None
       \/ token.key # SECRET_KEY
       \/ Val(token.claims).sub = None
        THEN "InvalidToken"
    ELSE IF Val(token.claims).exp < Timegm(t) THEN "ExpiredToken"
    ELSE IF UserById(users, Val(Val(token.claims).sub)) = None THEN "UnknownSubject"
    ELSE ""

Failing == {c \in Credentials : c # None /\ FailureKind(Val(c), now) # ""}

(* C2 as the specification states it: the caller can tell the failure    *)
(* kinds apart, so no response is the outcome of two requests whose      *)
(* tokens fail in different ways.                                        *)
C2_FailureKindsDistinct ==
    [][response'.op = "get_me" =>
         \A c1 \in Failing, c2 \in Failing :
            FailureKind(Val(c1), now) # FailureKind(Val(c2), now)
                => ~(get_me(c1) /\ get_me(c2))]_vars

(* C2, amended: a token that is malformed, badly signed, without a       *)
(* subject, expired or of a subject that is no user is refused, and      *)
(* every such refusal is the same 401 "Could not validate credentials"   *)
(* with WWW-Authenticate: Bearer, whatever the kind of failure; a token  *)
(* that fails in none of these ways is not refused.                      *)
C2_OneCredentialsFailure ==
    [][response'.op = "get_me" =>
         \A credentials \in Credentials :
            (credentials # None /\ get_me(credentials)) =>
                IF credentials \in Failing
                THEN /\ response'.status = 401
                     /\ response'.detail = "Could not validate credentials"
                     /\ response'.headers = "WWW-Authenticate: Bearer"
                     /\ response'.user = None
                ELSE response'.status = 200]_vars

(* Tokens of all three kinds can be sent, the one the client was issued *)
(* being of a subject that is no user, and a request has just been      *)
(* refused for its token                                                *)
C2_Witness ==
    /\ response.op = "get_me"
    /\ response.status = 401
    /\ response.detail = "Could not validate credentials"
    /\ {FailureKind(Val(c), now) : c \in Failing}
            = {"InvalidToken", "ExpiredToken", "UnknownSubject"}
    /\ held # None
    /\ FailureKind(Val(held).token, now) = "UnknownSubject"

(* The login attempts that must fail: no user has the email, or the     *)
(* password does not verify against the hash of the user who has it     *)
NoSuchEmail(email) == \A u \in users : u.email # email

WrongPassword(email, password) ==
    \E u \in users : u.email = email /\ ~verify_password(password, u.password_hash)

(* C3: a login with an email no user has and a login with a user's      *)
(* email and a wrong password have the same outcome, a 401 "Incorrect   *)
(* email or password" with no token issued, so that every transition    *)
(* that is one is also the other; and a token is issued only when the   *)
(* email is a user's and the password verifies, and then for that user. *)
C3_LoginFailuresIndistinguishable ==
    [][response'.op = "login" =>
         /\ \A e1 \in Emails, p1 \in Passwords, e2 \in Emails, p2 \in Passwords :
                (NoSuchEmail(e1) /\ WrongPassword(e2, p2)) =>
                    (login(e1, p1) <=> login(e2, p2))
         /\ \A email \in Emails, password \in Passwords :
                login(email, password) =>
                    IF NoSuchEmail(email) \/ WrongPassword(email, password)
                    THEN /\ response'.status = 401
                         /\ response'.detail = "Incorrect email or password"
                         /\ response'.token = None
                         /\ held' = held
                    ELSE /\ response'.status = 200
                         /\ response'.token # None
                         /\ \E u \in users :
                                /\ u.email = email
                                /\ verify_password(password, u.password_hash)
                                /\ Val(Val(response'.token).claims).sub = Some(u.id)
                                /\ response'.user = Some(UserDict(u))]_vars

(* After a login that succeeded, a later one has failed and has left    *)
(* the earlier token as it was                                          *)
C3_Witness ==
    /\ response.op = "login"
    /\ response.status = 401
    /\ response.detail = "Incorrect email or password"
    /\ response.token = None
    /\ held # None
    /\ Val(held).sub = Some(AdminId)
    /\ Val(held).expires_delta = Some(Minutes(ACCESS_TOKEN_EXPIRE_MINUTES))
    /\ Val(held).iat < now

----------------------------------------------------------------------------
(* Claims about get_articles, checked under SpecList *)

(* A filter is present when the request gives it a value *)
Present(filter) == filter # None /\ Val(filter) # ""

(* The matching policy of the specification: exact category, exact      *)
(* status, and the search string contained in the title or the content  *)
SpecMatches(article, query) ==
    /\ Present(query.category) => article.category = Val(query.category)
    /\ Present(query.status) => article.status = Val(query.status)
    /\ Present(query.search) =>
            \/ IsSubstring(Chars(Val(query.search)), Chars(article.title))
            \/ IsSubstring(Chars(Val(query.search)), Chars(article.content))

SpecMatching(rows, query) == SelectSeq(rows, LAMBDA article : SpecMatches(article, query))

Min(a, b) == IF a < b THEN a ELSE b
Max(a, b) == IF a > b THEN a ELSE b

(* C4: for limit > 0 and offset >= 0, total is the number of stored     *)
(* articles that satisfy the filters present, the items are articles    *)
(* that satisfy them, min(limit, max(0, total - offset)) of them, and   *)
(* hasMore = (offset + limit) < total.                                  *)
C4_ListFiltersAndPaginates ==
    [][response'.op = "get_articles" =>
         \A query \in ListQueries :
            (query.limit > 0 /\ query.offset >= 0 /\ get_articles(query)) =>
                LET matching == SpecMatching(articles, query)
                    total == Len(matching)
                IN /\ response'.total = total
                   /\ Len(response'.articles)
                        = Min(query.limit, Max(0, total - query.offset))
                   /\ \A i \in 1..Len(response'.articles) :
                        \E k \in 1..Len(matching) :
                            response'.articles[i] = ArticleDict(matching[k])
                   /\ response'.has_more = ((query.offset + query.limit) < total)]_vars

(* C5: for limit <= 0 the items are empty and total is still the count  *)
(* of the matching articles; for offset >= total the items are empty    *)
(* and hasMore is false.                                                *)
C5_ListEdgeCases ==
    [][response'.op = "get_articles" =>
         \A query \in ListQueries :
            get_articles(query) =>
                /\ query.limit <= 0 =>
                        /\ response'.articles = <<>>
                        /\ response'.total = Len(Filtered(articles, query))
                /\ query.offset >= response'.total =>
                        /\ response'.articles = <<>>
                        /\ response'.has_more = FALSE]_vars

----------------------------------------------------------------------------
(* The claim about get_articles with other requests in flight, checked  *)
(* under SpecConc                                                       *)

(* What C10 asks of a response to query, with the table as rows *)
WindowConsistent(resp, query, rows) ==
    /\ Len(resp.articles) <= resp.total
    /\ (query.limit > 0 /\ query.offset >= 0) =>
            Len(resp.articles) = Min(query.limit, Max(0, resp.total - query.offset))
    /\ ~resp.has_more =>
            Len(Filtered(rows, query)) <= query.offset + Len(resp.articles)

(* C10 as the specification states it: in every interleaving the        *)
(* response of get_articles has no more items than total, has           *)
(* min(limit, max(0, total - offset)) of them, and hasMore = false      *)
(* means no matching article lies beyond the window.                    *)
C10_ListConsistentUnderConcurrency ==
    [][(pending # None /\ pending' = None) =>
         WindowConsistent(response', Val(pending).query, articles)]_vars

(* C10, amended: total is the number of matching articles at the first  *)
(* read and decides hasMore; the items are the window of the matching   *)
(* articles at the second read; and whenever as many articles match at  *)
(* the second read as at the first, as when no write was committed in   *)
(* between, the response is consistent in the three ways C10 names.     *)
C10_ListConsistentWhenUndisturbed ==
    [][/\ (pending = None /\ pending' # None) =>
            Val(pending').total = Len(Filtered(articles, Val(pending').query))
       /\ (pending # None /\ pending' = None) =>
            LET query == Val(pending).query
                matching == Filtered(articles, query)
                window == Window(matching, query.offset, query.limit)
            IN /\ response'.total = Val(pending).total
               /\ response'.has_more = ((query.offset + query.limit) < Val(pending).total)
               /\ response'.articles = [i \in 1..Len(window) |-> ArticleDict(window[i])]
               /\ Len(matching) = Val(pending).total =>
                    WindowConsistent(response', query, articles)]_vars

(* A response whose items outnumber its total: an article was created  *)
(* between the two reads                                               *)
C10_Witness ==
    /\ response.op = "get_articles"
    /\ pending = None
    /\ response.total = Len(SampleArticles(0))
    /\ Len(response.articles) = Len(SampleArticles(0)) + 1
    /\ Len(articles) = Len(SampleArticles(0)) + 1

----------------------------------------------------------------------------
(* Claims about the article endpoints, checked under Spec *)

RowOf(rows, article_id) == rows[Val(ArticleById(rows, article_id))]

Exists(rows, article_id) == ArticleById(rows, article_id) # None

(* The rows other than article_id are the same rows, in the same places *)
OthersKept(before, after, article_id) ==
    /\ Len(after) = Len(before)
    /\ \A i \in 1..Len(before) :
            before[i].id # article_id => after[i] = before[i]

(* What an update with body data may not touch in a row *)
FieldsKept(before, after, data) ==
    /\ after.id = before.id
    /\ after.author = before.author
    /\ after.published_at = before.published_at
    /\ data.title = None => after.title = before.title
    /\ data.content = None => /\ after.content = before.content
                              /\ after.read_time = before.read_time
    /\ data.excerpt = None => after.excerpt = before.excerpt
    /\ data.category = None => after.category = before.category
    /\ data.tags = None => after.tags = before.tags
    /\ data.image_url = None => after.image_url = before.image_url
    /\ data.status = None => after.status = before.status

(* C6: an update of an existing article changes only the fields its body *)
(* provides (and read_time with content); the article's id, author and   *)
(* publication timestamp and every other article stay as they were, and  *)
(* an update that fails changes nothing.                                 *)
C6_UpdateChangesOnlyProvidedFields ==
    [][response'.op = "update_article" =>
         IF response'.status # 200 THEN articles' = articles
         ELSE LET article_id == Val(response'.article).id
              IN /\ Exists(articles, article_id)
                 /\ OthersKept(articles, articles', article_id)
                 /\ \A data \in UpdateInputs :
                        \/ FieldsKept(RowOf(articles, article_id),
                                      RowOf(articles', article_id), data)
                        \/ \A credentials \in ApiCredentials :
                                ~update_article(article_id, data, credentials)]_vars

(* An update with only content has been applied to the first sample row *)
C6_Witness ==
    /\ response.op = "update_article"
    /\ response.status = 200
    /\ Val(response.article).id = 1
    /\ Exists(articles, 1)
    /\ RowOf(articles, 1).content = NewContent
    /\ RowOf(articles, 1).read_time = [minutes |-> 2, unit |-> "min"]
    /\ RowOf(articles, 1).title = SampleTitle1
    /\ RowOf(articles, 1).category = "market"
    /\ RowOf(articles, 1).tags = Dumps[SampleTags1]

CreatedRows == {i \in 1..Len(articles) : articles[i].id > Len(SampleArticles(0))}

(* C7: every article made by create_article carries, after any updates, *)
(* the read time of its current content: its word count divided by 200  *)
(* (integer division) plus 1, in minutes, and so at least 1.            *)
C7_ReadTimeFollowsContent ==
    \A i \in CreatedRows :
        /\ articles[i].read_time.unit = "min"
        /\ articles[i].read_time.minutes =
                (LenSplit[articles[i].content] \div 200) + 1
        /\ articles[i].read_time.minutes >= 1

(* A created article whose content an update replaced by 200 words *)
C7_Witness ==
    \E i \in CreatedRows :
        /\ articles[i].title = OldTitle
        /\ articles[i].content = NewContent
        /\ LenSplit[NewContent] = 200
        /\ articles[i].read_time.minutes = 2
        /\ response.op = "update_article"
        /\ response.status = 200

(* C8: deleting an id no article has answers 404 and leaves the table   *)
(* as it was; deleting an existing article removes that row and no      *)
(* other; an id that is gone stays gone, so that a later get or delete  *)
(* of it answers 404.                                                   *)
C8_DeleteRemovesExactlyOne ==
    [][/\ response'.op = "delete_article" =>
            \A credentials \in ApiCredentials :
                Accepted(credentials) =>
                    \A article_id \in ArticleIds :
                        delete_article(article_id, credentials) =>
                            IF Exists(articles, article_id)
                            THEN /\ response'.status = 200
                                 /\ ~Exists(articles', article_id)
                                 /\ Len(articles') = Len(articles) - 1
                                 /\ \A i \in 1..Len(articles) :
                                        articles[i].id # article_id =>
                                            \E k \in 1..Len(articles') :
                                                articles'[k] = articles[i]
                            ELSE /\ response'.status = 404
                                 /\ response'.detail = "Article not found"
                                 /\ articles' = articles
       /\ \A article_id \in 1..(NewUuid - 1) :
            ~Exists(articles, article_id) => ~Exists(articles', article_id)
       /\ response'.op = "get_article" =>
            \A article_id \in ArticleIds :
                (get_article(article_id) /\ ~Exists(articles, article_id)) =>
                    response'.status = 404]_vars

(* The first sample row was deleted, the second is still there, and a  *)
(* delete has just been answered 404 with the table left alone          *)
C8_Witness ==
    /\ response.op = "delete_article"
    /\ response.status = 404
    /\ ~Exists(articles, 1)
    /\ Exists(articles, 2)
    /\ RowOf(articles, 2) = SampleArticles(0)[2]

(* A bearer token that passes verification at time t: signed with the  *)
(* secret, not expired, and of a subject that is a user's id            *)
TokenPasses(credentials, t) ==
    /\ credentials # None
    /\ Val(credentials).claims # None
    /\ Val(credentials).key = SECRET_KEY
    /\ Val(Val(credentials).claims).exp >= Timegm(t)
    /\ Val(Val(credentials).claims).sub # None
    /\ \E u \in users : u.id = Val(Val(Val(credentials).claims).sub)

(* The transition is a request to endpoint op sent with credentials *)
IsRequest(op, credentials) ==
    CASE op = "create_article" ->
            \E data \in CreateBodies(credentials) : create_article(data, credentials)
      [] op = "update_article" ->
            \E article_id \in IdsFor(credentials), data \in UpdateBodies(credentials) :
                update_article(article_id, data, credentials)
      [] op = "delete_article" ->
            \E article_id \in IdsFor(credentials) :
                delete_article(article_id, credentials)
      [] OTHER -> FALSE

(* C9: the table changes only in a create, update or delete request     *)
(* whose bearer token passes verification at that moment; such a        *)
(* request with no token or one that does not pass is answered 401 or   *)
(* 403 and changes nothing; a created article's author is the name of   *)
(* the token's user; get_articles and get_article change nothing.       *)
C9_OnlyAuthenticatedRequestsWrite ==
    [][/\ articles' # articles =>
            /\ response'.op \in {"create_article", "update_article", "delete_article"}
            /\ \E credentials \in ApiCredentials : TokenPasses(credentials, now)
       /\ \A credentials \in ApiCredentials :
            (~TokenPasses(credentials, now) /\ IsRequest(response'.op, credentials)) =>
                /\ articles' = articles
                /\ response'.status \in {401, 403}
       /\ (response'.op = "create_article" /\ response'.status = 200) =>
            \E credentials \in ApiCredentials :
                /\ TokenPasses(credentials, now)
                /\ IsRequest("create_article", credentials)
                /\ \E u \in users :
                        /\ u.id = Val(Val(Val(credentials).claims).sub)
                        /\ articles'[Len(articles')].author = u.name
       /\ response'.op \in {"get_articles", "get_article"} => articles' = articles]_vars

(* After the clock moved: an article the admin created is stored, and a *)
(* delete sent with a token that no longer passes has been refused      *)
C9_Witness ==
    /\ now > Expire
    /\ response.op = "delete_article"
    /\ response.status = 401
    /\ response.detail = "Could not validate credentials"
    /\ Len(articles) = 3
    /\ articles[3].author = "Admin"

====
